---- MODULE Spec2Model ----
(***************************************************************************)
(* scp_write: write a Supercard Pro (.scp) flux image to a disk.           *)
(* A model of main() of src/scp/scp_write.c: the track range check, the    *)
(* container header and checksum, the track loop, and the resampling of    *)
(* each track's flux samples to the measured speed of the target drive.    *)
(***************************************************************************)
EXTENDS Integers, Sequences, FiniteSets, TLC

(***************************************************************************)
(* Bounds of the model.                                                    *)
(***************************************************************************)
\* the track numbers the requested range and the container take: 0..MaxTrk
MaxTrk == 2
\* the longest sample block of a track record
MaxSamples == 3
\* the longest checksummed payload (bytes from offset 16 to the end of file)
MaxPayload == 2

(***************************************************************************)
(* Unsigned C integers.  TLC's integers are 32 bits wide, too narrow for   *)
(* uint32_t and uint64_t, so an unsigned integer is kept as a sequence of  *)
(* 16-bit limbs, least significant first: a uint32_t has 2 limbs and a     *)
(* uint64_t has 4.  The B-operators are exact on limb sequences of any     *)
(* length; the C operations truncate them to the width of their type.      *)
(***************************************************************************)
\* 0x10000u: 2^16, the ticks a sentinel unit stands for; also the limb base
B16 == 65536

Limb(a, k) == IF k <= Len(a) THEN a[k] ELSE 0

Trunc(a, n) == [k \in 1..n |-> Limb(a, k)]

\* the limbs of an integer 0 <= v < 2^31
Big(v) == <<v % B16, v \div B16>>

U32(v) == Trunc(Big(v), 2)

U64(v) == Trunc(Big(v), 4)

BIsZero(a) == \A k \in 1..Len(a) : a[k] = 0

RECURSIVE BAddFrom(_, _, _, _)
BAddFrom(a, b, k, c) ==
    IF k > Len(a) /\ k > Len(b)
    THEN IF c = 0 THEN <<>> ELSE <<c>>
    ELSE LET s == Limb(a, k) + Limb(b, k) + c
         IN  <<s % B16>> \o BAddFrom(a, b, k + 1, s \div B16)

BAdd(a, b) == BAddFrom(a, b, 1, 0)

\* a - b for a >= b
RECURSIVE BSubFrom(_, _, _, _)
BSubFrom(a, b, k, c) ==
    IF k > Len(a) /\ k > Len(b)
    THEN <<>>
    ELSE LET s == Limb(a, k) - Limb(b, k) - c
         IN  <<(s + B16) % B16>> \o BSubFrom(a, b, k + 1, IF s < 0 THEN 1 ELSE 0)

BSub(a, b) == BSubFrom(a, b, 1, 0)

\* a <= b, compared from limb k down
RECURSIVE BLeqFrom(_, _, _)
BLeqFrom(a, b, k) ==
    IF k = 0 THEN TRUE
    ELSE IF Limb(a, k) # Limb(b, k) THEN Limb(a, k) < Limb(b, k)
    ELSE BLeqFrom(a, b, k - 1)

BLeq(a, b) == BLeqFrom(a, b, IF Len(a) > Len(b) THEN Len(a) ELSE Len(b))

BEq(a, b) == BLeq(a, b) /\ BLeq(b, a)

\* the product of two limbs as <<low limb, high limb>>, no intermediate
\* value reaching 2^31
MulLimb(a, b) ==
    LET p1 == a * (b % 256)
        p2 == a * (b \div 256)
        t  == p1 + (p2 % 256) * 256
    IN  <<t % B16, (p2 \div 256) + (t \div B16)>>

RECURSIVE BMulLimbFrom(_, _, _, _)
BMulLimbFrom(a, m, k, c) ==
    IF k > Len(a)
    THEN IF c = 0 THEN <<>> ELSE <<c>>
    ELSE LET p == MulLimb(a[k], m)
             s == p[1] + c
         IN  <<s % B16>> \o BMulLimbFrom(a, m, k + 1, p[2] + (s \div B16))

RECURSIVE BMulFrom(_, _, _)
BMulFrom(a, b, k) ==
    IF k > Len(b) THEN <<>>
    ELSE BAdd([n \in 1..(k - 1) |-> 0] \o BMulLimbFrom(a, b[k], 1, 0),
              BMulFrom(a, b, k + 1))

BMul(a, b) == BMulFrom(a, b, 1)

\* long division by d # 0 of one limb v below the remainder r of the limbs
\* above it, one bit at a time from bit n down: q collects the quotient bits
RECURSIVE DivBits(_, _, _, _, _)
DivBits(r, v, d, n, q) ==
    IF n < 0 THEN [q |-> q, r |-> r]
    ELSE LET r2 == BAdd(BAdd(r, r), <<(v \div (2 ^ n)) % 2>>)
         IN  IF BLeq(d, r2)
             THEN DivBits(Trunc(BSub(r2, d), Len(d)), v, d, n - 1, q + 2 ^ n)
             ELSE DivBits(Trunc(r2, Len(d)), v, d, n - 1, q)

\* long division of the limbs 1..k of a, below the remainder r of the
\* limbs above them
RECURSIVE BDivFrom(_, _, _, _)
BDivFrom(a, d, k, r) ==
    IF k = 0 THEN [q |-> <<>>, r |-> r]
    ELSE LET s    == DivBits(r, a[k], d, 15, 0)
             rest == BDivFrom(a, d, k - 1, s.r)
         IN  [q |-> rest.q \o <<s.q>>, r |-> rest.r]

\* a / d and a % d for d # 0
BDivMod(a, d) == BDivFrom(a, d, Len(a), [k \in 1..Len(d) |-> 0])

(***************************************************************************)
(* Program constants and the data the program reads.                       *)
(***************************************************************************)
\* the number of tracks an image may hold (scp.h): valid tracks are below it
SCP_MAX_TRACKS == 168

\* uint16_t dat[256*1024/2], odat[256*1024/2]: the capacity of each, in units
BUF_UNITS == (256 * 1024) \div 2

\* A 16-bit unit as its two bytes in memory order.  The image and the device
\* hold units most significant byte first.
be16toh(u) == u[1] * 256 + u[2]

htobe16(v) == <<v \div 256, v % 256>>

\* The sample block dat[0 .. nr_samples-1] is kept as runs of equal units,
\* [n |-> length of the run, u |-> the unit], so that a long block stays small.
Runs(units) == [k \in 1..Len(units) |-> [n |-> 1, u |-> htobe16(units[k])]]

RECURSIVE NrSamplesFrom(_, _)
NrSamplesFrom(runs, k) ==
    IF k > Len(runs) THEN 0 ELSE runs[k].n + NrSamplesFrom(runs, k + 1)

NrSamples(runs) == NrSamplesFrom(runs, 1)

\* dat[idx], idx counted from 0
RECURSIVE DatFrom(_, _, _)
DatFrom(runs, k, idx) ==
    IF idx < runs[k].n THEN runs[k].u ELSE DatFrom(runs, k + 1, idx - runs[k].n)

DatAt(runs, idx) == DatFrom(runs, 1, idx)

RECURSIVE SeqsUpTo(_, _)
SeqsUpTo(S, n) ==
    IF n = 0 THEN {<<>>}
    ELSE LET shorter == SeqsUpTo(S, n - 1)
         IN  shorter \cup {Append(q, e) : q \in {t \in shorter : Len(t) = n - 1}, e \in S}

\* -s and -e as given on the command line
TrkArgs == (0..MaxTrk) \cup {SCP_MAX_TRACKS, SCP_MAX_TRACKS + 1}

\* struct disk_header as read from the first 16 bytes of the image
Headers ==
    {[sig |-> g, writable |-> f[1], checksum |-> f[2],
      start_track |-> lo, end_track |-> hi] :
        g \in {"SCP", "SCQ"},
        f \in {<<FALSE, U32(256)>>, <<TRUE, U32(256)>>, <<FALSE, U32(0)>>},
        lo \in {0, 1}, hi \in {MaxTrk - 1, MaxTrk}}

PayloadBytes == {0, 1, 255}

Payloads == SeqsUpTo(PayloadBytes, MaxPayload)

\* entries of the track offset table: 0 is an absent track
Offsets == {0, 688}

\* the measured index time of the drive, and the duration of a revolution
\* of the image
DriveTimes == {U32(2), U32(5)}

\* struct track_header with its first revolution (tracknr, duration), and that
\* revolution's samples
Revolutions ==
    {[duration |-> U32(3), samples |-> Runs(<<4>>)],
     [duration |-> U32(3), samples |-> Runs(<<0, 1>>)],
     [duration |-> U32(0), samples |-> Runs(<<>>)],
     [duration |-> U32(0), samples |-> Runs(<<4>>)]}

\* the track records the image may hold at the offset of track t: the record
\* of track t, one with another signature, one of another track
TrackRecords(t) ==
    {[sig |-> "TRK", tracknr |-> t, duration |-> r.duration, samples |-> r.samples] :
        r \in Revolutions}
    \cup {[sig |-> "TRJ", tracknr |-> t, duration |-> U32(3), samples |-> Runs(<<4>>)],
          [sig |-> "TRK", tracknr |-> t + 1, duration |-> U32(3), samples |-> Runs(<<4>>)]}

NoHeader == [sig |-> "", writable |-> FALSE, checksum |-> U32(0),
             start_track |-> 0, end_track |-> 0]

NoTrack == [sig |-> "", tracknr |-> 0, duration |-> U32(0), nr_samples |-> 0]

Call(op, t, units, nr) == [op |-> op, trk |-> t, units |-> units, nr |-> nr]

(***************************************************************************)
(* The state of a run.                                                     *)
(***************************************************************************)
VARIABLES
    pc,         \* the position in main()
    start_trk,  \* -s
    end_trk,    \* -e
    dhdr,       \* the disk header read from the image
    payload,    \* buf: the bytes from offset 16 to the end of file
    csum,       \* the sum of the bytes of buf, uint32_t
    th_offs,    \* the track offset table, entries 0 .. end_trk
    drvtime,    \* index time of the drive, uint32_t
    trk,        \* the track of the loop
    thdr,       \* the track header read last
    imtime,     \* duration of the image's revolution, uint32_t
    dat,        \* the samples of the track, as runs
    i,          \* index of the next sample
    j,          \* number of units stored in odat
    x,          \* the accumulator, uint64_t
    y,          \* the quotient being emitted, uint64_t
    odat,       \* odat[0 .. j-1]
    calls,      \* the calls made to the file and to the device, in order
    err,        \* the message the run exited with, "" when none
    ub          \* the undefined behaviour the run has executed, "" when none

vars == <<pc, start_trk, end_trk, dhdr, payload, csum, th_offs, drvtime, trk, thdr,
          imtime, dat, i, j, x, y, odat, calls, err, ub>>

Init ==
    /\ pc = "args"
    /\ start_trk \in TrkArgs
    /\ end_trk \in TrkArgs
    /\ dhdr = NoHeader
    /\ payload = <<>>
    /\ csum = U32(0)
    /\ th_offs = <<>>
    /\ drvtime = U32(0)
    /\ trk = 0
    /\ thdr = NoTrack
    /\ imtime = U32(0)
    /\ dat = <<>>
    /\ i = 0
    /\ j = 0
    /\ x = U64(0)
    /\ y = U64(0)
    /\ odat = <<>>
    /\ calls = <<>>
    /\ err = ""
    /\ ub = ""

\* errx(1, ...), err(1, ...) and usage(1): the run exits with a message
Exit(msg) == pc' = "exit" /\ err' = msg

(***************************************************************************)
(* The range check, the image header and its checksum.                     *)
(***************************************************************************)
\* as BadRange, with > for >=: a range ending at SCP_MAX_TRACKS is let through
BadRangeOffByOne(s, e) == (e > SCP_MAX_TRACKS) \/ (s > e)

BadRange(s, e) == (e >= SCP_MAX_TRACKS) \/ (s > e)

CheckRange ==
    /\ pc = "args"
    /\ IF BadRange(start_trk, end_trk)
       THEN Exit("Bad track range")
       ELSE pc' = "open" /\ err' = err
    /\ UNCHANGED <<start_trk, end_trk, dhdr, payload, csum, th_offs, drvtime, trk, thdr,
                   imtime, dat, i, j, x, y, odat, calls, ub>>

OpenImage ==
    /\ pc = "open"
    /\ \E opened \in BOOLEAN, hdr \in Headers :
          IF ~opened
          THEN /\ Exit("Error opening")
               /\ calls' = Append(calls, Call("file_open", 0, <<>>, 0))
               /\ dhdr' = dhdr
          ELSE /\ calls' = calls \o <<Call("file_open", 0, <<>>, 0),
                                      Call("read_exact", 0, <<>>, 0)>>
               /\ dhdr' = hdr
               /\ IF hdr.sig # "SCP"
                  THEN Exit("Not an SCP image")
                  ELSE pc' = "checksum" /\ err' = err
    /\ UNCHANGED <<start_trk, end_trk, payload, csum, th_offs, drvtime, trk, thdr,
                   imtime, dat, i, j, x, y, odat, ub>>

\* the test that guards the checksum block
Sealed(hdr) == ~hdr.writable /\ ~BIsZero(hdr.checksum)

\* as SumBytes, with the last byte left out of the sum
RECURSIVE SumBytesButLast(_, _, _)
SumBytesButLast(buf, k, sum) ==
    IF k >= Len(buf) THEN sum
    ELSE SumBytesButLast(buf, k + 1, Trunc(BAdd(sum, <<buf[k]>>), 2))

\* csum += *p++ over the bytes of buf from index k on, csum a uint32_t
RECURSIVE SumBytes(_, _, _)
SumBytes(buf, k, sum) ==
    IF k > Len(buf) THEN sum
    ELSE SumBytes(buf, k + 1, Trunc(BAdd(sum, <<buf[k]>>), 2))

\* the message the checksum block exits with, "" when it does not, for an
\* image whose bytes from offset 16 are buf
ChecksumGate(hdr, buf) ==
    IF Sealed(hdr)
    THEN IF 16 + Len(buf) < 16 THEN "is too short"
         ELSE IF SumBytes(buf, 1, U32(0)) # hdr.checksum THEN "has bad checksum"
         ELSE ""
    ELSE ""

\* the bytes after the 16-byte header are read into buf
VerifyChecksum ==
    /\ pc = "checksum"
    /\ IF Sealed(dhdr)
       THEN \E buf \in Payloads :
               /\ payload' = buf
               /\ calls' = calls \o <<Call("lseek", 0, <<>>, 0),
                                      Call("read_exact", 0, <<>>, 0)>>
               /\ IF 16 + Len(buf) < 16
                  THEN Exit("is too short")
                  ELSE pc' = "sum" /\ err' = err
       ELSE /\ pc' = "table"
            /\ UNCHANGED <<payload, calls, err>>
    /\ UNCHANGED <<start_trk, end_trk, dhdr, csum, th_offs, drvtime, trk, thdr,
                   imtime, dat, i, j, x, y, odat, ub>>

\* buf is summed, freed and the sum compared with the header's
SumPayload ==
    /\ pc = "sum"
    /\ csum' = SumBytes(payload, 1, U32(0))
    /\ payload' = <<>>
    /\ IF ChecksumGate(dhdr, payload) # ""
       THEN Exit(ChecksumGate(dhdr, payload))
       ELSE pc' = "table" /\ err' = err
    /\ UNCHANGED <<start_trk, end_trk, dhdr, th_offs, drvtime, trk, thdr,
                   imtime, dat, i, j, x, y, odat, calls, ub>>

ReadTable ==
    /\ pc = "table"
    /\ \E t \in [1..(end_trk + 1) -> Offsets] : th_offs' = t
    /\ calls' = Append(calls, Call("read_exact", 0, <<>>, 0))
    /\ pc' = "device"
    /\ UNCHANGED <<start_trk, end_trk, dhdr, payload, csum, drvtime, trk, thdr,
                   imtime, dat, i, j, x, y, odat, err, ub>>

(***************************************************************************)
(* The device and the speed of its drive.                                  *)
(***************************************************************************)
OpenDevice ==
    /\ pc = "device"
    /\ calls' = Append(calls, Call("scp_open", 0, <<>>, 0))
    /\ pc' = "measure"
    /\ UNCHANGED <<start_trk, end_trk, dhdr, payload, csum, th_offs, drvtime, trk, thdr,
                   imtime, dat, i, j, x, y, odat, err, ub>>

MeasureDrive ==
    /\ pc = "measure"
    /\ \E t \in DriveTimes : drvtime' = t
    /\ calls' = calls \o <<Call("seek", 0, <<>>, 0), Call("read_flux", 0, <<>>, 0)>>
    /\ trk' = start_trk
    /\ pc' = "loop"
    /\ UNCHANGED <<start_trk, end_trk, dhdr, payload, csum, th_offs, thdr,
                   imtime, dat, i, j, x, y, odat, err, ub>>

(***************************************************************************)
(* The track loop.                                                         *)
(***************************************************************************)
\* as Skipped, without the test of the table offset
SkippedByRange(t, hdr, offs) == (t < hdr.start_track) \/ (t > hdr.end_track)

\* the tests that make the loop pass over a track
Skipped(t, hdr, offs) ==
    \/ (t < hdr.start_track) \/ (t > hdr.end_track)
    \/ offs[t + 1] = 0

NextTrack ==
    /\ pc = "loop"
    /\ trk <= end_trk
    /\ x' = U64(0)
    /\ IF Skipped(trk, dhdr, th_offs)
       THEN trk' = trk + 1 /\ pc' = "loop"
       ELSE trk' = trk /\ pc' = "read"
    /\ UNCHANGED <<start_trk, end_trk, dhdr, payload, csum, th_offs, drvtime, thdr,
                   imtime, dat, i, j, y, odat, calls, err, ub>>

\* as BadTrack, without the test of the track number
BadSignature(hdr, t) == hdr.sig # "TRK"

BadTrack(hdr, t) == hdr.sig # "TRK" \/ hdr.tracknr # t

ReadTrack ==
    /\ pc = "read"
    /\ \E rec \in TrackRecords(trk) :
          /\ thdr' = [sig |-> rec.sig, tracknr |-> rec.tracknr,
                      duration |-> rec.duration,
                      nr_samples |-> NrSamples(rec.samples)]
          /\ IF BadTrack(thdr', trk)
             THEN /\ Exit("Track bad signature")
                  /\ calls' = calls \o <<Call("lseek", trk, <<>>, 0),
                                         Call("read_exact", trk, <<>>, 0)>>
                  /\ UNCHANGED <<imtime, dat, i, j, odat>>
             ELSE /\ imtime' = rec.duration
                  /\ dat' = rec.samples
                  /\ calls' = calls \o <<Call("lseek", trk, <<>>, 0),
                                         Call("read_exact", trk, <<>>, 0),
                                         Call("lseek", trk, <<>>, 0),
                                         Call("read_exact", trk, <<>>, 0)>>
                  /\ i' = 0
                  /\ j' = 0
                  /\ odat' = <<>>
                  /\ pc' = "resample"
                  /\ err' = err
    /\ UNCHANGED <<start_trk, end_trk, dhdr, payload, csum, th_offs, drvtime, trk,
                   x, y, ub>>

(***************************************************************************)
(* Resampling a track to the speed of the drive.                           *)
(***************************************************************************)
\* as Scaled, with the product computed in 32 bits (no cast to uint64_t)
Scaled32(acc, ticks, drv) == Trunc(BAdd(acc, Trunc(BMul(ticks, drv), 2)), 4)

\* x += (uint64_t)ticks * drvtime
Scaled(acc, ticks, drv) == Trunc(BAdd(acc, BMul(ticks, drv)), 4)

\* One sample is added to x.  A sentinel that is not the last sample goes
\* on to the next sample; every other sample goes on to the division.
Accumulate ==
    /\ pc = "resample"
    /\ i < thdr.nr_samples
    /\ LET u == DatAt(dat, i)
       IN  IF u # <<0, 0>>
           THEN /\ x' = Scaled(x, Big(be16toh(u)), drvtime)
                /\ i' = i
                /\ pc' = "divide"
           ELSE /\ x' = Scaled(x, Big(B16), drvtime)
                /\ IF i < thdr.nr_samples - 1
                   THEN i' = i + 1 /\ pc' = "resample"
                   ELSE i' = i /\ pc' = "divide"
    /\ UNCHANGED <<start_trk, end_trk, dhdr, payload, csum, th_offs, drvtime, trk, thdr,
                   imtime, dat, j, y, odat, calls, err, ub>>

\* x / d and x % d.  Division by zero is undefined: where the processor does
\* not trap, the quotient is 0 and the remainder, x - (x / d) * d, is x.
Quot(acc, d) == IF BIsZero(d) THEN U64(0) ELSE Trunc(BDivMod(acc, d).q, 4)

Rem(acc, d) == IF BIsZero(d) THEN acc ELSE Trunc(BDivMod(acc, d).r, 4)

\* y = x / imtime.  With imtime = 0 the division is undefined: the process is
\* killed by the trap, or goes on with the quotient of a processor that does
\* not trap.
Divide ==
    /\ pc = "divide"
    /\ IF BIsZero(imtime)
       THEN /\ ub' = "division by zero"
            /\ \E trap \in BOOLEAN :
                  IF trap THEN pc' = "undefined" /\ y' = y
                  ELSE pc' = "emit" /\ y' = Quot(x, imtime)
       ELSE /\ y' = Quot(x, imtime)
            /\ pc' = "emit"
            /\ ub' = ub
    /\ UNCHANGED <<start_trk, end_trk, dhdr, payload, csum, th_offs, drvtime, trk, thdr,
                   imtime, dat, i, j, x, odat, calls, err>>

\* the number of times "while (y >= 0x10000u)" runs, y >> 16, or BUF_UNITS
\* when it runs at least that often
Sentinels(q) ==
    IF q[4] # 0 \/ q[3] >= 2 THEN BUF_UNITS
    ELSE LET k == q[2] + B16 * q[3]
         IN  IF k >= BUF_UNITS THEN BUF_UNITS ELSE k

\* as Units, with the rest stored as it is, 0 included
UnitsUnclamped(q) == [n \in 1..Sentinels(q) |-> htobe16(0)] \o <<htobe16(q[1])>>

\* the units the while loop and the store after it put into odat for y = q
Units(q) ==
    [n \in 1..Sentinels(q) |-> htobe16(0)]
        \o <<htobe16(IF q[1] = 0 THEN 1 ELSE q[1])>>

\* The quotient is stored: a 0 unit for every 0x10000 in it, and then the
\* rest, or 1 when the rest is 0; x keeps the remainder.  A store beyond
\* odat[BUF_UNITS - 1] is undefined.
Emit ==
    /\ pc = "emit"
    /\ IF j + Sentinels(y) + 1 > BUF_UNITS
       THEN /\ pc' = "undefined"
            /\ ub' = "store beyond odat"
            /\ UNCHANGED <<odat, j, y, x, i>>
       ELSE /\ odat' = odat \o Units(y)
            /\ j' = j + Len(Units(y))
            /\ y' = U64(y[1])
            /\ x' = Rem(x, imtime)
            /\ i' = i + 1
            /\ pc' = "resample"
            /\ ub' = ub
    /\ UNCHANGED <<start_trk, end_trk, dhdr, payload, csum, th_offs, drvtime, trk, thdr,
                   imtime, dat, calls, err>>

\* as WriteTrack, with the flux written before the head is moved
WriteBeforeSeek ==
    /\ pc = "resample"
    /\ i >= thdr.nr_samples
    /\ calls' = calls \o <<Call("write_flux", trk, odat, j), Call("seek", trk, <<>>, 0)>>
    /\ trk' = trk + 1
    /\ pc' = "loop"
    /\ UNCHANGED <<start_trk, end_trk, dhdr, payload, csum, th_offs, drvtime, thdr,
                   imtime, dat, i, j, x, y, odat, err, ub>>

\* The samples are used up: the head is moved to the track and odat[0 .. j-1]
\* is written to it.
WriteTrack ==
    /\ pc = "resample"
    /\ i >= thdr.nr_samples
    /\ calls' = calls \o <<Call("seek", trk, <<>>, 0), Call("write_flux", trk, odat, j)>>
    /\ trk' = trk + 1
    /\ pc' = "loop"
    /\ UNCHANGED <<start_trk, end_trk, dhdr, payload, csum, th_offs, drvtime, thdr,
                   imtime, dat, i, j, x, y, odat, err, ub>>

Finish ==
    /\ pc = "loop"
    /\ trk > end_trk
    /\ calls' = Append(calls, Call("scp_close", 0, <<>>, 0))
    /\ pc' = "done"
    /\ UNCHANGED <<start_trk, end_trk, dhdr, payload, csum, th_offs, drvtime, trk, thdr,
                   imtime, dat, i, j, x, y, odat, err, ub>>

Next ==
    \/ CheckRange
    \/ OpenImage
    \/ VerifyChecksum
    \/ SumPayload
    \/ ReadTable
    \/ OpenDevice
    \/ MeasureDrive
    \/ NextTrack
    \/ ReadTrack
    \/ Accumulate
    \/ Divide
    \/ Emit
    \/ WriteTrack
    \/ Finish

Spec == Init /\ [][Next]_vars

(***************************************************************************)
(* The resampling of one track, over more samples and speeds than the      *)
(* whole run takes: the state of a run over track 0 alone, as ReadTrack    *)
(* leaves it.                                                              *)
(***************************************************************************)
AfterReadTrack(samples, im, drv) ==
    /\ pc = "resample"
    /\ start_trk = 0
    /\ end_trk = 0
    /\ dhdr = [sig |-> "SCP", writable |-> FALSE, checksum |-> U32(0),
               start_track |-> 0, end_track |-> 0]
    /\ payload = <<>>
    /\ csum = U32(0)
    /\ th_offs = <<688>>
    /\ drvtime = drv
    /\ trk = 0
    /\ thdr = [sig |-> "TRK", tracknr |-> 0, duration |-> im,
               nr_samples |-> NrSamples(samples)]
    /\ imtime = im
    /\ dat = samples
    /\ i = 0
    /\ j = 0
    /\ x = U64(0)
    /\ y = U64(0)
    /\ odat = <<>>
    /\ calls = <<Call("file_open", 0, <<>>, 0), Call("read_exact", 0, <<>>, 0),
                 Call("read_exact", 0, <<>>, 0), Call("scp_open", 0, <<>>, 0),
                 Call("seek", 0, <<>>, 0), Call("read_flux", 0, <<>>, 0),
                 Call("lseek", 0, <<>>, 0), Call("read_exact", 0, <<>>, 0),
                 Call("lseek", 0, <<>>, 0), Call("read_exact", 0, <<>>, 0)>>
    /\ err = ""
    /\ ub = ""

\* the values of the samples of a track
SampleVals == {0, 1, 100, 50000, 65535}

\* <<duration of the image's revolution, index time of the drive>>
Speeds ==
    {<<U32(200000), U32(100000)>>, <<U32(3), U32(2)>>, <<U32(2), U32(3)>>,
     <<U32(1), U32(1)>>, <<U32(1), U32(200000)>>}

InitResample ==
    \E units \in SeqsUpTo(SampleVals, MaxSamples), s \in Speeds :
        AfterReadTrack(Runs(units), s[1], s[2])

NextResample ==
    \/ Accumulate
    \/ Divide
    \/ Emit
    \/ WriteTrack
    \/ Finish

SpecResample == InitResample /\ [][NextResample]_vars

\* a track of sentinels alone, up to more than 0x10000 of them, for an image
\* and a drive at the longest revolution a uint32_t holds
InitLong ==
    \E n \in {1, B16, B16 + 1} :
        AfterReadTrack(<<[n |-> n, u |-> htobe16(0)]>>,
                       <<B16 - 1, B16 - 1>>, <<B16 - 1, B16 - 1>>)

SpecLong == InitLong /\ [][NextResample]_vars

(***************************************************************************)
(* What the claims are stated with.                                        *)
(***************************************************************************)
\* the ticks a unit stands for: a 0 unit stands for 0x10000
TicksOf(u) == IF be16toh(u) = 0 THEN B16 ELSE be16toh(u)

\* the ticks of units[k ..], exactly
RECURSIVE OutTicksFrom(_, _)
OutTicksFrom(units, k) ==
    IF k > Len(units) THEN <<>>
    ELSE BAdd(Big(TicksOf(units[k])), OutTicksFrom(units, k + 1))

\* the ticks of the runs [k ..] of a sample block, exactly
RECURSIVE InTicksFrom(_, _)
InTicksFrom(runs, k) ==
    IF k > Len(runs) THEN <<>>
    ELSE BAdd(BMul(Big(runs[k].n), Big(TicksOf(runs[k].u))), InTicksFrom(runs, k + 1))

\* the ticks of a short sequence of units, as an integer
RECURSIVE IntTicksFrom(_, _)
IntTicksFrom(units, k) ==
    IF k > Len(units) THEN 0 ELSE TicksOf(units[k]) + IntTicksFrom(units, k + 1)

LastCall == calls[Len(calls)]

\* the track whose samples are in dat has just been written
Written ==
    /\ pc = "loop"
    /\ calls # <<>>
    /\ LastCall.op = "write_flux"
    /\ LastCall.trk = thdr.tracknr

\* the calls made to the device that move the head, read or write flux
HwCalls == SelectSeq(calls, LAMBDA c : c.op \in {"seek", "read_flux", "write_flux"})

\* track t is in the container's range and its table offset is not 0
Present(t) ==
    /\ t >= dhdr.start_track
    /\ t <= dhdr.end_track
    /\ th_offs[t + 1] # 0

\* the sum of the bytes of buf[k ..], as an integer
RECURSIVE IntSumFrom(_, _)
IntSumFrom(buf, k) == IF k > Len(buf) THEN 0 ELSE buf[k] + IntSumFrom(buf, k + 1)

(***************************************************************************)
(* C1: for imtime > 0 and drvtime > 0, the ticks of the units written for  *)
(* a track differ from the ticks of its samples times drvtime / imtime by  *)
(* at most one tick per unit written (a 0 unit counting 65536 ticks on     *)
(* both sides):  |out * imtime - in * drvtime| <= nr * imtime.             *)
(***************************************************************************)
C1_TimingConserved ==
    (Written /\ ~BIsZero(imtime) /\ ~BIsZero(drvtime)) =>
        LET out == BMul(OutTicksFrom(LastCall.units, 1), imtime)
            in  == BMul(InTicksFrom(dat, 1), drvtime)
            tol == BMul(Big(LastCall.nr), imtime)
        IN  BLeq(out, BAdd(in, tol)) /\ BLeq(in, BAdd(out, tol))

(***************************************************************************)
(* C2: the track of duration 200000 with samples [100, 0, 50000], written  *)
(* to a drive of index time 100000.                                        *)
(***************************************************************************)
C2_Scenario ==
    /\ dat = Runs(<<100, 0, 50000>>)
    /\ imtime = U32(200000)
    /\ drvtime = U32(100000)

\* C2 as claimed: the units written sum to 32868 ticks, each is in
\* [1, 65535] and none is a sentinel.
C2_SumIs32868 ==
    (C2_Scenario /\ Written) =>
        /\ IntTicksFrom(LastCall.units, 1) = 32868
        /\ \A n \in 1..Len(LastCall.units) : be16toh(LastCall.units[n]) \in 1..65535

\* C2 as amended: the units written sum to 57818 ticks,
\* (100 + 65536 + 50000) * 100000 / 200000, each is in [1, 65535] and none
\* is a sentinel.
C2_SumIs57818 ==
    (C2_Scenario /\ Written) =>
        /\ IntTicksFrom(LastCall.units, 1) = 57818
        /\ LastCall.nr = Len(LastCall.units)
        /\ \A n \in 1..Len(LastCall.units) : be16toh(LastCall.units[n]) \in 1..65535

C2_Witness == C2_Scenario /\ Written /\ LastCall.nr = 2

(***************************************************************************)
(* C5: a step that stores the quotient y = k * 65536 + r, 0 <= r < 65536,  *)
(* appends to odat exactly k units of value 0 and then one unit of value   *)
(* r, or 1 when r = 0: the last unit is in [1, 65535], and the units       *)
(* stand for y ticks, or y + 1 when r = 0.                                 *)
(***************************************************************************)
C5_SentinelRun ==
    [][(pc = "emit" /\ pc' = "resample") =>
          LET n    == Len(odat') - Len(odat)
              last == be16toh(odat'[Len(odat')])
          IN  /\ n >= 1
              /\ j' = j + n
              /\ SubSeq(odat', 1, Len(odat)) = odat
              /\ \A m \in 1..(n - 1) : be16toh(odat'[Len(odat) + m]) = 0
              /\ last \in 1..65535
              /\ last = (IF y[1] = 0 THEN 1 ELSE y[1])
              /\ BEq(BAdd(BMul(Big(n - 1), Big(B16)), <<y[1]>>), y)]_vars

\* a quotient of exactly 65536 has been stored as a 0 unit and a unit of 1
C5_Witness ==
    /\ pc = "resample"
    /\ i > 0
    /\ y = U64(0)
    /\ Len(odat) >= 2
    /\ odat[Len(odat) - 1] = htobe16(0)
    /\ odat[Len(odat)] = htobe16(1)

(***************************************************************************)
(* C10: no unit is stored beyond the end of odat, and no more units than   *)
(* odat holds are handed to write_flux.                                    *)
(***************************************************************************)
C10_OdatInBounds ==
    /\ ub # "store beyond odat"
    /\ j <= BUF_UNITS
    /\ \A n \in 1..Len(calls) : calls[n].op = "write_flux" => calls[n].nr <= BUF_UNITS

(***************************************************************************)
(* C3: a present track whose first revolution has duration 0 is never      *)
(* resampled or written: no division by imtime = 0 is executed and no      *)
(* write_flux is issued for that track.                                    *)
(***************************************************************************)
C3_ZeroDurationRejected ==
    /\ ub # "division by zero"
    /\ Written => ~BIsZero(thdr.duration)

(***************************************************************************)
(* C4: with the writable flag unset and a nonzero checksum in the header,  *)
(* the run goes on exactly when the bytes from offset 16 sum to that       *)
(* checksum and exits with "has bad checksum" otherwise, and an image that *)
(* passed fails with any one of its bytes changed; with the writable flag  *)
(* set or the checksum 0, no image exits with "has bad checksum".  (The    *)
(* payloads here sum to less than 2^32, so their 32-bit sum is their sum.) *)
(***************************************************************************)
C4_ChecksumGate ==
    /\ [][pc = "sum" =>
            LET ok == BEq(Big(IntSumFrom(payload, 1)), dhdr.checksum)
            IN  /\ ok => (pc' = "table" /\ err' = "")
                /\ ~ok => (pc' = "exit" /\ err' = "has bad checksum")
                /\ ok => \A k \in 1..Len(payload), b \in 0..255 :
                            b # payload[k] =>
                               ChecksumGate(dhdr, [payload EXCEPT ![k] = b])
                                  = "has bad checksum"]_vars
    /\ []((dhdr.writable \/ BIsZero(dhdr.checksum)) =>
            /\ err # "has bad checksum"
            /\ pc # "sum"
            /\ pc = "checksum" => \A buf \in Payloads : ChecksumGate(dhdr, buf) = "")

\* the checksum of an image has been summed and has matched
C4_Witness ==
    /\ pc = "table"
    /\ ~dhdr.writable
    /\ ~BIsZero(dhdr.checksum)
    /\ csum = dhdr.checksum

(***************************************************************************)
(* C6: a requested track outside the container's range, or with table      *)
(* offset 0, is passed over: the loop goes on to the next track with no    *)
(* call and no error, and no seek or write_flux of the track loop is for   *)
(* such a track.                                                           *)
(***************************************************************************)
C6_AbsentSkipped ==
    /\ [][(pc = "loop" /\ trk <= end_trk /\ ~Present(trk)) =>
            (pc' = "loop" /\ trk' = trk + 1 /\ calls' = calls /\ err' = err)]_vars
    /\ [](\A n \in 3..Len(HwCalls) : Present(HwCalls[n].trk))

\* a run has ended that passed over a track and wrote a later one
C6_Witness ==
    /\ pc = "done"
    /\ \E t \in start_trk..end_trk :
          /\ ~Present(t)
          /\ \E n \in 3..Len(HwCalls) :
                HwCalls[n].op = "write_flux" /\ HwCalls[n].trk > t

(***************************************************************************)
(* C7: the head is moved to track 0 and the drive's index time read once,  *)
(* before anything is written, and drvtime is not changed afterwards; a    *)
(* run that ends without error has then made, for each present track of    *)
(* the requested range in increasing order, one seek to it followed by one *)
(* write_flux of the units resampled for it and their number.              *)
(***************************************************************************)
C7_Calls ==
    LET hw == HwCalls
        np == Cardinality({t \in start_trk..end_trk : Present(t)})
    IN  /\ Len(hw) >= 1 => (hw[1].op = "seek" /\ hw[1].trk = 0)
        /\ Len(hw) >= 2 => hw[2].op = "read_flux"
        /\ \A n \in 3..Len(hw) : hw[n].op # "read_flux"
        /\ \A n \in 1..Len(hw) : hw[n].op = "write_flux" => n > 2
        /\ Written => (LastCall.units = odat /\ LastCall.nr = j /\ j = Len(odat))
        /\ pc = "done" =>
              /\ Len(hw) = 2 + 2 * np
              /\ \A m \in 1..np :
                    /\ hw[2 * m + 1].op = "seek"
                    /\ hw[2 * m + 2].op = "write_flux"
                    /\ hw[2 * m + 1].trk = hw[2 * m + 2].trk
                    /\ hw[2 * m + 1].trk \in start_trk..end_trk
                    /\ Present(hw[2 * m + 1].trk)
                    /\ \A m2 \in (m + 1)..np : hw[2 * m + 1].trk < hw[2 * m2 + 1].trk

C7_CallOrder ==
    /\ []C7_Calls
    /\ [][pc \notin {"args", "open", "checksum", "sum", "table", "device", "measure"}
            => drvtime' = drvtime]_vars

\* a run has ended without error that wrote two tracks
C7_Witness == pc = "done" /\ err = "" /\ Len(HwCalls) >= 6

(***************************************************************************)
(* C8: a range with end >= SCP_MAX_TRACKS or start > end exits with "Bad   *)
(* track range" before the image is opened and before any call to the      *)
(* device.                                                                 *)
(***************************************************************************)
C8_RangeRejected ==
    ((end_trk >= SCP_MAX_TRACKS) \/ (start_trk > end_trk)) =>
        /\ calls = <<>>
        /\ pc \in {"args", "exit"}
        /\ pc = "exit" => err = "Bad track range"

C8_Witness ==
    /\ pc = "exit"
    /\ err = "Bad track range"
    /\ end_trk >= SCP_MAX_TRACKS
    /\ calls = <<>>

(***************************************************************************)
(* C9: a track record with another signature than TRK, or with another     *)
(* track number than the track it was read for, ends the run: the run      *)
(* exits with no seek and no write_flux for that track or a later one, the *)
(* calls made for earlier tracks stand, and nothing happens after the exit.*)
(***************************************************************************)
C9_BadTrackFatal ==
    /\ [][pc = "read" =>
            ((thdr'.sig # "TRK" \/ thdr'.tracknr # trk) =>
                /\ pc' = "exit"
                /\ err' = "Track bad signature"
                /\ HwCalls' = HwCalls
                /\ \A n \in 3..Len(HwCalls') : HwCalls'[n].trk < trk)]_vars
    /\ [][pc # "exit"]_vars

\* a run has written a track and then exited on a bad track record
C9_Witness ==
    /\ pc = "exit"
    /\ err = "Track bad signature"
    /\ \E n \in 3..Len(HwCalls) : HwCalls[n].op = "write_flux"

====
